---- MODULE Spec2Model ----
(***************************************************************************)
(* A model of xprezzo-http-errors (src/index.js): the createError factory, *)
(* the per-status error constructors it registers at load time and the     *)
(* isHttpError predicate.                                                  *)
(*                                                                         *)
(* JavaScript values are records [t, n, s]: t is the kind of value, n the  *)
(* number (or 0/1 for a boolean), s the string.  NaN is a number of its    *)
(* own kind, because it is a value of typeof 'number' that no comparison   *)
(* and no === accepts.  Objects are records [kind, v, cls, code, own]: cls *)
(* is the prototype the object hangs from, code the status code of a       *)
(* per-status constructor's prototype, own the object's own properties     *)
(* (Absent where it has none).                                             *)
(***************************************************************************)
EXTENDS Integers, Sequences, FiniteSets

VARIABLES op, args, code, pc, ret, verdict

vars == <<op, args, code, pc, ret, verdict>>

(* ------------------------------------------------------------------ *)
(* JavaScript values                                                   *)
(* ------------------------------------------------------------------ *)

Undefined == [t |-> "undefined", n |-> 0, s |-> ""]

Null == [t |-> "null", n |-> 0, s |-> ""]

Absent == [t |-> "absent", n |-> 0, s |-> ""]

NaN == [t |-> "NaN", n |-> 0, s |-> ""]

Opaque == [t |-> "object", n |-> 0, s |-> ""]

Num(k) == [t |-> "number", n |-> k, s |-> ""]

Str(x) == [t |-> "string", n |-> 0, s |-> x]

Bool(b) == [t |-> "boolean", n |-> IF b THEN 1 ELSE 0, s |-> ""]

\* typeof v
TypeOf(v) ==
  CASE v.t \in {"number", "NaN"} -> "number"
    [] v.t \in {"null", "object"} -> "object"
    [] v.t = "string" -> "string"
    [] v.t = "boolean" -> "boolean"
    [] OTHER -> "undefined"

\* ToBoolean(v), as the operators ||, ! and if read a value
Truthy(v) ==
  CASE v.t = "number" -> v.n # 0
    [] v.t = "string" -> v.s # ""
    [] v.t = "boolean" -> v.n = 1
    [] v.t = "object" -> TRUE
    [] OTHER -> FALSE

\* a === b (NaN equals nothing, itself included)
StrictEquals(a, b) == a = b /\ a.t # "NaN"

\* a || b
Or(a, b) == IF Truthy(a) THEN a ELSE b

\* v < k and v >= k for a status v: false of NaN
LessThan(v, k) == v.t = "number" /\ v.n < k

AtLeast(v, k) == v.t = "number" /\ v.n >= k

Keys == {"message", "status", "statusCode", "expose", "code"}

NoOwn ==
  [message |-> Absent, status |-> Absent, statusCode |-> Absent,
   expose |-> Absent, code |-> Absent]

Prim(v) == [kind |-> "prim", v |-> v, cls |-> "", code |-> 0, own |-> NoOwn]

Obj(cls, c, own) ==
  [kind |-> "object", v |-> Opaque, cls |-> cls, code |-> c, own |-> own]

(* ------------------------------------------------------------------ *)
(* The Status Table: the statuses package the module requires          *)
(* ------------------------------------------------------------------ *)

\* statuses.message: status code -> reason phrase
StatusTable ==
  {<<100, "Continue">>,
   <<101, "Switching Protocols">>,
   <<102, "Processing">>,
   <<103, "Early Hints">>,
   <<200, "OK">>,
   <<201, "Created">>,
   <<202, "Accepted">>,
   <<203, "Non-Authoritative Information">>,
   <<204, "No Content">>,
   <<205, "Reset Content">>,
   <<206, "Partial Content">>,
   <<207, "Multi-Status">>,
   <<208, "Already Reported">>,
   <<226, "IM Used">>,
   <<300, "Multiple Choices">>,
   <<301, "Moved Permanently">>,
   <<302, "Found">>,
   <<303, "See Other">>,
   <<304, "Not Modified">>,
   <<305, "Use Proxy">>,
   <<307, "Temporary Redirect">>,
   <<308, "Permanent Redirect">>,
   <<400, "Bad Request">>,
   <<401, "Unauthorized">>,
   <<402, "Payment Required">>,
   <<403, "Forbidden">>,
   <<404, "Not Found">>,
   <<405, "Method Not Allowed">>,
   <<406, "Not Acceptable">>,
   <<407, "Proxy Authentication Required">>,
   <<408, "Request Timeout">>,
   <<409, "Conflict">>,
   <<410, "Gone">>,
   <<411, "Length Required">>,
   <<412, "Precondition Failed">>,
   <<413, "Payload Too Large">>,
   <<414, "URI Too Long">>,
   <<415, "Unsupported Media Type">>,
   <<416, "Range Not Satisfiable">>,
   <<417, "Expectation Failed">>,
   <<418, "I'm a Teapot">>,
   <<421, "Misdirected Request">>,
   <<422, "Unprocessable Entity">>,
   <<423, "Locked">>,
   <<424, "Failed Dependency">>,
   <<425, "Too Early">>,
   <<426, "Upgrade Required">>,
   <<428, "Precondition Required">>,
   <<429, "Too Many Requests">>,
   <<431, "Request Header Fields Too Large">>,
   <<451, "Unavailable For Legal Reasons">>,
   <<500, "Internal Server Error">>,
   <<501, "Not Implemented">>,
   <<502, "Bad Gateway">>,
   <<503, "Service Unavailable">>,
   <<504, "Gateway Timeout">>,
   <<505, "HTTP Version Not Supported">>,
   <<506, "Variant Also Negotiates">>,
   <<507, "Insufficient Storage">>,
   <<508, "Loop Detected">>,
   <<509, "Bandwidth Limit Exceeded">>,
   <<510, "Not Extended">>,
   <<511, "Network Authentication Required">>}

\* statuses.codes
StatusCodes == {e[1] : e \in StatusTable}

\* statuses.message[status]: undefined unless status is a code of the table
StatusMessage(status) ==
  IF status.t = "number" /\ status.n \in StatusCodes
  THEN Str((CHOOSE e \in StatusTable : e[1] = status.n)[2])
  ELSE Undefined

(* ------------------------------------------------------------------ *)
(* The error class registry                                            *)
(* ------------------------------------------------------------------ *)

RECURSIVE FirstDigit(_)
\* String(k).charAt(0) of a non-negative integer k
FirstDigit(k) == IF k < 10 THEN k ELSE FirstDigit(k \div 10)

\* Number(String(status).charAt(0) + '00'): NaN of NaN ('N00'), 0 of a
\* negative number ('-00')
codeClass(status) ==
  CASE status.t = "NaN" -> NaN
    [] status.t = "number" /\ status.n < 0 -> Num(0)
    [] OTHER -> Num(FirstDigit(status.n) * 100)

\* the codes populateConstructorExports registers a client-error constructor for
ClientCodes == {c \in StatusCodes : codeClass(Num(c)) = Num(400)}

\* the codes populateConstructorExports registers a server-error constructor for
ServerCodes == {c \in StatusCodes : codeClass(Num(c)) = Num(500)}

\* createError[key] for a numeric key: the code of the constructor registered
\* under it, Undefined where there is none
Registry(key) ==
  IF key.t = "number" /\ key.n \in ClientCodes \cup ServerCodes
  THEN key
  ELSE Undefined

\* new ClientError(message): an Error re-hung from ClientError.prototype,
\* whose own message is the given one, or the reason phrase of the code
ClientError(c, message) ==
  Obj("ClientError", c,
      [NoOwn EXCEPT !.message =
         IF message.t \notin {"undefined", "null"} THEN message
         ELSE StatusMessage(Num(c))])

\* a variant of ServerError whose prototype exposes, as a client error's does
ServerErrorExposed(c, message) == ClientError(c, message)

\* new ServerError(message)
ServerError(c, message) ==
  Obj("ServerError", c,
      [NoOwn EXCEPT !.message =
         IF message.t \notin {"undefined", "null"} THEN message
         ELSE StatusMessage(Num(c))])

\* new createError[c](message), c a registered code
Construct(c, message) ==
  IF c \in ClientCodes THEN ClientError(c, message) ELSE ServerError(c, message)

\* new Error(message): no own message when message is undefined
NewError(message) ==
  Obj("Error", 0,
      [NoOwn EXCEPT !.message =
         IF message.t = "undefined" THEN Absent ELSE message])

ErrorClasses == {"Error", "HttpError", "ClientError", "ServerError"}

\* val instanceof Error
InstanceOfError(val) == val.kind = "object" /\ val.cls \in ErrorClasses

\* val instanceof HttpError (the abstract base)
InstanceOfHttpError(val) ==
  val.kind = "object" /\ val.cls \in {"HttpError", "ClientError", "ServerError"}

\* val instanceof createError[c]
InstanceOf(val, c) ==
  val.kind = "object" /\ val.cls \in {"ClientError", "ServerError"} /\ val.code = c

\* what the prototype chain of obj gives for key
ProtoGet(obj, key) ==
  CASE obj.cls \in {"ClientError", "ServerError"} /\ key \in {"status", "statusCode"}
         -> Num(obj.code)
    [] obj.cls = "ClientError" /\ key = "expose" -> Bool(TRUE)
    [] obj.cls = "ServerError" /\ key = "expose" -> Bool(FALSE)
    [] obj.cls \in ErrorClasses /\ key = "message" -> Str("")
    [] OTHER -> Undefined

\* obj[key]: the own property, else the prototype chain's
Get(obj, key) == IF obj.own[key] # Absent THEN obj.own[key] ELSE ProtoGet(obj, key)

(* ------------------------------------------------------------------ *)
(* isHttpError                                                         *)
(* ------------------------------------------------------------------ *)

\* a variant of isHttpError that does not compare status with statusCode
isHttpErrorNoStatusCheck(val) ==
  CASE val.kind = "prim" -> FALSE
    [] InstanceOfHttpError(val) -> TRUE
    [] OTHER ->
         /\ InstanceOfError(val)
         /\ TypeOf(Get(val, "expose")) = "boolean"
         /\ TypeOf(Get(val, "statusCode")) = "number"

\* isHttpError(val); a primitive is falsy or not of typeof 'object', and null
\* is falsy
isHttpError(val) ==
  CASE val.kind = "prim" -> FALSE
    [] InstanceOfHttpError(val) -> TRUE
    [] OTHER ->
         /\ InstanceOfError(val)
         /\ TypeOf(Get(val, "expose")) = "boolean"
         /\ TypeOf(Get(val, "statusCode")) = "number"
         /\ StrictEquals(Get(val, "status"), Get(val, "statusCode"))

(* ------------------------------------------------------------------ *)
(* createError                                                         *)
(* ------------------------------------------------------------------ *)

NonFirstArgumentSignal == "non-first-argument status code"

NonErrorSignal == "non-error status code"

\* a variant of AdoptedStatus that reads statusCode only when status is absent
AdoptedStatusIfAbsent(err, status) ==
  IF Get(err, "status") # Undefined THEN Get(err, "status")
  ELSE Or(Get(err, "statusCode"), status)

\* err.status || err.statusCode || status
AdoptedStatus(err, status) ==
  Or(Or(Get(err, "status"), Get(err, "statusCode")), status)

\* a variant of NonFirstArgument that holds at every position
NonFirstArgumentAlways(i) == i = i

\* i !== 0, for the 1-based position i of an argument
NonFirstArgument(i) == i # 1

\* the locals of createError before the loop: no err (0), no msg
ScanInit ==
  [err |-> 0, msg |-> Undefined, status |-> Num(500),
   props |-> Obj("Object", 0, NoOwn), signals |-> <<>>]

\* one turn of the loop over arguments, on arguments[i]
ScanStep(arg, i, st) ==
  CASE InstanceOfError(arg) ->
         [st EXCEPT !.err = i, !.status = AdoptedStatus(arg, st.status)]
    [] arg.kind = "prim" /\ TypeOf(arg.v) = "string" ->
         [st EXCEPT !.msg = arg.v]
    [] arg.kind = "prim" /\ TypeOf(arg.v) = "number" ->
         [st EXCEPT !.status = arg.v,
                    !.signals = IF NonFirstArgument(i)
                                THEN Append(@, [kind |-> NonFirstArgumentSignal, arg |-> arg.v])
                                ELSE @]
    [] \/ arg.kind = "object" /\ ~InstanceOfError(arg)
       \/ arg.kind = "prim" /\ TypeOf(arg.v) = "object" ->
         [st EXCEPT !.props = arg]
    [] OTHER -> st

RECURSIVE Scan(_, _, _)
\* the loop over arguments, from position i on
Scan(arguments, i, st) ==
  IF i > Len(arguments) THEN st
  ELSE Scan(arguments, i + 1, ScanStep(arguments[i], i, st))

\* a variant of NonErrorStatus that lets the codes of the Status Table pass
NonErrorStatusUnlessKnown(status) ==
  /\ TypeOf(status) = "number"
  /\ LessThan(status, 400) \/ AtLeast(status, 600)
  /\ ~Truthy(StatusMessage(status))

\* whether the status of the scan draws the 'non-error status code' signal
NonErrorStatus(status) ==
  /\ TypeOf(status) = "number"
  /\ LessThan(status, 400) \/ AtLeast(status, 600)

\* a variant of Fallback that lets every number pass
FallbackNumbersKept(status) ==
  IF TypeOf(status) # "number" THEN Num(500) ELSE status

\* the status after the fallback to 500
Fallback(status) ==
  IF \/ TypeOf(status) # "number"
     \/ /\ ~Truthy(StatusMessage(status))
        /\ LessThan(status, 400) \/ AtLeast(status, 600)
  THEN Num(500)
  ELSE status

\* createError[status] || createError[codeClass(status)]
SelectConstructor(status) ==
  Or(Registry(status), Registry(codeClass(status)))

\* a variant of NeedsStamp that skips an error whose status already matches
NeedsStampUnlessStatusEqual(HttpError, err, status) ==
  ~StrictEquals(Get(err, "status"), status)

\* !HttpError || !(err instanceof HttpError) || err.status !== status
NeedsStamp(HttpError, err, status) ==
  \/ ~Truthy(HttpError)
  \/ ~InstanceOf(err, HttpError.n)
  \/ ~StrictEquals(Get(err, "status"), status)

\* err.expose = status < 500; err.status = err.statusCode = status
Stamp(err, status) ==
  [err EXCEPT !.own.expose = Bool(LessThan(status, 500)),
              !.own.status = status,
              !.own.statusCode = status]

\* for (key in props): every key but status and statusCode; null has no keys
CopyProps(err, props) ==
  IF props.kind = "prim" THEN err
  ELSE [err EXCEPT !.own =
          [k \in Keys |->
             IF k \notin {"status", "statusCode"} /\ props.own[k] # Absent
             THEN props.own[k]
             ELSE @[k]]]

\* createError(...arguments): the value returned (val), the position of the
\* argument it is (ref, 0 for a new object), the status and the properties
\* bag the loop ends with, the status after the fallback and the signals
\* handed to deprecate, in order
createError(arguments) ==
  LET st == Scan(arguments, 1, ScanInit)
      sig == IF NonErrorStatus(st.status)
             THEN Append(st.signals, [kind |-> NonErrorSignal, arg |-> Undefined])
             ELSE st.signals
      status == Fallback(st.status)
      HttpError == SelectConstructor(status)
      err == IF st.err # 0 THEN arguments[st.err]
             ELSE IF Truthy(HttpError) THEN Construct(HttpError.n, st.msg)
             ELSE NewError(Or(st.msg, StatusMessage(status)))
      stamped == IF NeedsStamp(HttpError, err, status) THEN Stamp(err, status) ELSE err
  IN [val |-> CopyProps(stamped, st.props), ref |-> st.err,
      scanned |-> st.status, status |-> status, props |-> st.props,
      signals |-> sig]

(* ------------------------------------------------------------------ *)
(* The inputs                                                          *)
(* ------------------------------------------------------------------ *)

\* the longest argument list given to createError
MaxArgs == 3

\* numbers: NaN, a known code outside 4xx/5xx, a known error code, an
\* unknown code inside 4xx, the default, the last number inside 5xx
\* (unknown) and the first beyond it
NumberArgs == {Prim(NaN), Prim(Num(200)), Prim(Num(404)), Prim(Num(499)),
               Prim(Num(500)), Prim(Num(599)), Prim(Num(600))}

\* properties bags
BagCode == Obj("Object", 0, [NoOwn EXCEPT !.code = Str("ENOENT")])

BagStatus ==
  Obj("Object", 0,
      [NoOwn EXCEPT !.status = Num(1), !.statusCode = Num(2), !.expose = Str("yes")])

BagExpose ==
  Obj("Object", 0, [NoOwn EXCEPT !.expose = Bool(TRUE), !.message = Str("override")])

BagArgs == {BagCode, BagStatus, BagExpose}

\* errors a caller hands over: plain ones and instances of the registered
\* constructors, as built and with own properties a caller has set since
PlainError == NewError(Str("boom"))

ErrorArgs ==
  {PlainError,
   [PlainError EXCEPT !.own.status = Num(404), !.own.statusCode = Num(500)],
   [PlainError EXCEPT !.own.status = Num(0), !.own.statusCode = Num(404)],
   [PlainError EXCEPT !.own.status = Str("404")],
   [PlainError EXCEPT !.own.statusCode = Num(404)],
   Construct(404, Undefined),
   [Construct(404, Undefined) EXCEPT !.own.statusCode = Num(500)],
   [Construct(404, Undefined) EXCEPT !.own.status = Num(500)],
   [Construct(500, Undefined) EXCEPT !.own.statusCode = Num(404)]}

ArgValues ==
  NumberArgs \cup {Prim(Str("boom")), Prim(Undefined), Prim(Null)}
    \cup BagArgs \cup ErrorArgs

ArgLists == UNION {[1..k -> ArgValues] : k \in 0..MaxArgs}

\* the values isHttpError is asked about: objects of every prototype with
\* every mixture of expose, status and statusCode
Shapes ==
  {Obj(cls, 0, [NoOwn EXCEPT !.expose = e, !.status = st, !.statusCode = sc]) :
     cls \in {"Object", "Error", "HttpError"},
     e \in {Absent, Bool(TRUE), Str("yes")},
     st \in {Absent, Num(500), NaN, Str("500")},
     sc \in {Absent, Num(500), NaN, Str("500")}}

\* the messages a per-status constructor is called with
Messages == {Undefined, Null, Str("boom"), Str("")}

NoRet ==
  [val |-> Prim(Undefined), ref |-> 0, scanned |-> Undefined, status |-> Undefined,
   props |-> Prim(Undefined), signals |-> <<>>]

(* ------------------------------------------------------------------ *)
(* The calls                                                           *)
(* ------------------------------------------------------------------ *)

Init ==
  /\ pc = "call"
  /\ ret = NoRet
  /\ verdict = FALSE
  /\ \/ /\ op = "createError"
        /\ args \in ArgLists \cup {<<Prim(Num(c))>> : c \in StatusCodes}
        /\ code = 0
     \/ /\ op = "construct"
        /\ code \in ClientCodes \cup ServerCodes
        /\ args \in {<<>>} \cup {<<Prim(m)>> : m \in Messages}
     \/ /\ op = "isHttpError"
        /\ args \in {<<v>> : v \in ArgValues \cup Shapes}
        /\ code = 0

\* createError(...args)
CreateError ==
  /\ pc = "call"
  /\ op = "createError"
  /\ ret' = createError(args)
  /\ pc' = "returned"
  /\ UNCHANGED <<op, args, code, verdict>>

\* createError[code](args[1])
Constructor ==
  /\ pc = "call"
  /\ op = "construct"
  /\ ret' = [NoRet EXCEPT !.val =
               Construct(code, IF args = <<>> THEN Undefined ELSE args[1].v)]
  /\ pc' = "returned"
  /\ UNCHANGED <<op, args, code, verdict>>

\* isHttpError(args[1])
IsHttpError ==
  /\ pc = "call"
  /\ op = "isHttpError"
  /\ verdict' = isHttpError(args[1])
  /\ pc' = "checked"
  /\ UNCHANGED <<op, args, code, ret>>

\* isHttpError(the value the last call returned)
IsHttpErrorOfReturned ==
  /\ pc = "returned"
  /\ verdict' = isHttpError(ret.val)
  /\ pc' = "checked"
  /\ UNCHANGED <<op, args, code, ret>>

Next == CreateError \/ Constructor \/ IsHttpError \/ IsHttpErrorOfReturned

Spec == Init /\ [][Next]_vars

(* ------------------------------------------------------------------ *)
(* Properties                                                          *)
(* ------------------------------------------------------------------ *)

\* createError has returned
Returned == op = "createError" /\ pc \in {"returned", "checked"}

\* arg is a number argument
IsNumberArg(arg) == arg.kind = "prim" /\ TypeOf(arg.v) = "number"

\* status is a code of the Status Table
Known(status) == status.t = "number" /\ status.n \in StatusCodes

\* the position of the last Error among the arguments, 0 when there is none
LastErrorPosition ==
  LET E == {i \in 1..Len(args) : InstanceOfError(args[i])}
  IN IF E = {} THEN 0 ELSE CHOOSE i \in E : \A j \in E : j <= i

\* the properties bag has an own property key
BagHas(bag, key) == bag.kind = "object" /\ bag.own[key] # Absent

\* C1: for every code c of the Status Table in [400,599), createError(c)
\* returns a value whose status and statusCode are c and whose expose is
\* (c < 500)
C1_KnownStatusCode ==
  (/\ Returned
   /\ Len(args) = 1
   /\ IsNumberArg(args[1])
   /\ Known(args[1].v)
   /\ args[1].v.n >= 400
   /\ args[1].v.n < 599)
  => /\ StrictEquals(Get(ret.val, "status"), args[1].v)
     /\ StrictEquals(Get(ret.val, "statusCode"), args[1].v)
     /\ Get(ret.val, "expose") = Bool(args[1].v.n < 500)

\* createError(503) has returned an error that is not exposed
C1_Witness ==
  /\ Returned
  /\ args = <<Prim(Num(503))>>
  /\ Get(ret.val, "status") = Num(503)
  /\ Get(ret.val, "expose") = Bool(FALSE)

\* C2: every key of the retained properties bag but status and statusCode is
\* on the returned error with the bag's value, and the error's status and
\* statusCode are both the resolved status whatever the bag holds
C2_BagCopiedStatusKept ==
  Returned =>
    /\ \A k \in Keys \ {"status", "statusCode"} :
         BagHas(ret.props, k) => ret.val.own[k] = ret.props.own[k]
    /\ Get(ret.val, "status") = ret.status
    /\ Get(ret.val, "statusCode") = ret.status

\* C3: isHttpError(v) is false of null, undefined and what is no object,
\* true of what descends from the abstract HttpError, and otherwise true
\* exactly of an Error with a boolean expose, a number statusCode and
\* status === statusCode
C3_IsHttpError ==
  (op = "isHttpError" /\ pc = "checked") =>
    LET v == args[1]
    IN verdict =
         IF v.kind = "prim" THEN FALSE
         ELSE IF v.cls \in {"HttpError", "ClientError", "ServerError"} THEN TRUE
         ELSE /\ v.cls = "Error"
              /\ v.own.expose.t = "boolean"
              /\ v.own.statusCode.t \in {"number", "NaN"}
              /\ v.own.status = v.own.statusCode
              /\ v.own.status.t # "NaN"

\* isHttpError has accepted a plain Error for its shape alone
C3_Witness ==
  /\ op = "isHttpError"
  /\ pc = "checked"
  /\ verdict
  /\ args[1].cls = "Error"
  /\ args[1].own.statusCode = Num(500)

\* C4: isHttpError is true of every value createError returns
C4_ReturnedIsHttpError ==
  (op = "createError" /\ pc = "checked") => verdict

\* C5: every value createError or a per-status constructor returns has
\* status === statusCode
C5_StatusEqualsStatusCode ==
  (op \in {"createError", "construct"} /\ pc \in {"returned", "checked"}) =>
    StrictEquals(Get(ret.val, "status"), Get(ret.val, "statusCode"))

\* C6 as claimed: a scanned status that is no number, or a number without a
\* reason phrase, returns status and statusCode 500
C6_UnknownCollapses ==
  (Returned /\ (TypeOf(ret.scanned) # "number" \/ ~Known(ret.scanned))) =>
    /\ Get(ret.val, "status") = Num(500)
    /\ Get(ret.val, "statusCode") = Num(500)

\* the adopted error is one createError leaves unstamped at status 500: an
\* instance of the constructor of 500 whose status is 500
UnstampedAt500 ==
  /\ ret.ref # 0
  /\ InstanceOf(args[ret.ref], 500)
  /\ Get(args[ret.ref], "status") = Num(500)

\* C6, amended: a scanned status that is no number, or a number below 400 or
\* at least 600 without a reason phrase, returns status 500, and statusCode
\* 500 unless the adopted error is already an instance of the constructor of
\* 500 with status 500, which keeps the statusCode it came with
C6_OutsideUnknownCollapses ==
  (/\ Returned
   /\ \/ TypeOf(ret.scanned) # "number"
      \/ /\ ~Known(ret.scanned)
         /\ ret.scanned.t = "number"
         /\ ret.scanned.n < 400 \/ ret.scanned.n >= 600)
  => /\ Get(ret.val, "status") = Num(500)
     /\ Get(ret.val, "statusCode") =
          IF UnstampedAt500 THEN Get(args[ret.ref], "statusCode") ELSE Num(500)

\* createError(600) has returned status 500
C6_Witness ==
  /\ Returned
  /\ args = <<Prim(Num(600))>>
  /\ ret.scanned = Num(600)
  /\ Get(ret.val, "status") = Num(500)
  /\ Get(ret.val, "statusCode") = Num(500)

\* the 'non-error status code' signals of the call
NonErrorSignals == SelectSeq(ret.signals, LAMBDA x : x.kind = NonErrorSignal)

\* C7 as claimed: the 'non-error status code' signal is given exactly when
\* the scanned status is a number outside [400,599) that is no code of the
\* Status Table
C7_SignalUnlessKnown ==
  Returned =>
    (NonErrorSignals # <<>> <=>
       /\ ret.scanned.t = "number"
       /\ ret.scanned.n < 400 \/ ret.scanned.n >= 599
       /\ ~Known(ret.scanned))

\* C7, amended: the 'non-error status code' signal is given, once, exactly
\* when the scanned status is a number below 400 or at least 600, a code of
\* the Status Table or not (NaN is neither below 400 nor at least 600)
C7_SignalOutsideErrorRange ==
  Returned =>
    Len(NonErrorSignals) =
      IF ret.scanned.t = "number" /\ (ret.scanned.n < 400 \/ ret.scanned.n >= 600)
      THEN 1 ELSE 0

\* createError(200) has given the signal for a code of the Status Table
C7_Witness ==
  /\ Returned
  /\ args = <<Prim(Num(200))>>
  /\ Len(NonErrorSignals) = 1

RECURSIVE LaterNumbers(_, _)
\* the signals owed to the number arguments from position i on, i > 1
LaterNumbers(arguments, i) ==
  IF i > Len(arguments) THEN <<>>
  ELSE (IF IsNumberArg(arguments[i])
        THEN <<[kind |-> NonFirstArgumentSignal, arg |-> arguments[i].v]>>
        ELSE <<>>) \o LaterNumbers(arguments, i + 1)

\* C8: the 'non-first-argument status code' signal is given once for each
\* number argument after the first position, in order, and never for the
\* first; a string followed by a known 4xx/5xx code gives one signal in all
\* and returns that status with the string as message
C8_NonFirstArgumentSignals ==
  Returned =>
    /\ SelectSeq(ret.signals, LAMBDA x : x.kind = NonFirstArgumentSignal)
         = LaterNumbers(args, 2)
    /\ (/\ Len(args) = 2
        /\ args[1].kind = "prim" /\ args[1].v.t = "string"
        /\ IsNumberArg(args[2]) /\ Known(args[2].v)
        /\ args[2].v.n >= 400 /\ args[2].v.n < 600)
       => /\ Len(ret.signals) = 1
          /\ Get(ret.val, "status") = args[2].v
          /\ Get(ret.val, "statusCode") = args[2].v
          /\ Get(ret.val, "message") = args[1].v

\* createError('boom', 404) has given one signal and returned status 404
C8_Witness ==
  /\ Returned
  /\ args = <<Prim(Str("boom")), Prim(Num(404))>>
  /\ Len(ret.signals) = 1
  /\ Get(ret.val, "status") = Num(404)

\* the adopted error, once createError has returned with one
Adopted == args[ret.ref]

\* what C9 says moves createError to stamp the adopted error
C9_Stamps ==
  \/ ~Truthy(SelectConstructor(ret.status))
  \/ ~InstanceOf(Adopted, SelectConstructor(ret.status).n)
  \/ ~StrictEquals(Get(Adopted, "status"), ret.status)

\* C9 as claimed: createError returns the adopted error itself; where it
\* stamps, expose is (s < 500) and status and statusCode are s on return;
\* otherwise status, statusCode and expose are as they were
C9_AdoptedStamped ==
  (Returned /\ LastErrorPosition # 0) =>
    /\ ret.ref = LastErrorPosition
    /\ ret.val.cls = Adopted.cls /\ ret.val.code = Adopted.code
    /\ IF C9_Stamps
       THEN /\ Get(ret.val, "expose") = Bool(LessThan(ret.status, 500))
            /\ Get(ret.val, "status") = ret.status
            /\ Get(ret.val, "statusCode") = ret.status
       ELSE \A k \in {"status", "statusCode", "expose"} :
              Get(ret.val, k) = Get(Adopted, k)

\* C9, amended: as claimed, but where the retained properties bag has an
\* expose key the returned expose is the bag's value
C9_AdoptedStampedThenBag ==
  (Returned /\ LastErrorPosition # 0) =>
    /\ ret.ref = LastErrorPosition
    /\ ret.val.cls = Adopted.cls /\ ret.val.code = Adopted.code
    /\ Get(ret.val, "expose") =
         IF BagHas(ret.props, "expose") THEN ret.props.own.expose
         ELSE IF C9_Stamps THEN Bool(LessThan(ret.status, 500))
         ELSE Get(Adopted, "expose")
    /\ \A k \in {"status", "statusCode"} :
         Get(ret.val, k) = IF C9_Stamps THEN ret.status ELSE Get(Adopted, k)

\* a plain Error whose status is the resolved one and whose statusCode is
\* another has been stamped all the same
C9_Witness ==
  /\ Returned
  /\ ret.ref # 0
  /\ Adopted.cls = "Error"
  /\ Get(Adopted, "status") = ret.status
  /\ Get(Adopted, "statusCode") = Num(500)
  /\ ret.status = Num(404)
  /\ Get(ret.val, "statusCode") = Num(404)
  /\ Get(ret.val, "expose") = Bool(TRUE)

\* the status the last contributing argument contributes, 500 when none
\* does; contributes(arg) tells whether arg does, contribution(arg) what
LastContribution(contributes(_), contribution(_)) ==
  LET C == {i \in 1..Len(args) : contributes(args[i])}
  IN IF C = {} THEN Num(500)
     ELSE contribution(args[CHOOSE i \in C : \A j \in C : j <= i])

\* C10 as claimed: the scanned status is 500 when no argument contributes
\* one, else what the last contributing argument contributes: a number
\* itself, an Error its status, or its statusCode where it has no status,
\* when it has either
C10_LastContributionIfPresent ==
  Returned =>
    ret.scanned =
      LastContribution(
        LAMBDA a : \/ IsNumberArg(a)
                   \/ /\ InstanceOfError(a)
                      /\ \/ Get(a, "status") # Undefined
                         \/ Get(a, "statusCode") # Undefined,
        LAMBDA a : IF IsNumberArg(a) THEN a.v
                   ELSE IF Get(a, "status") # Undefined THEN Get(a, "status")
                   ELSE Get(a, "statusCode"))

\* C10, amended: an Error contributes its status where that is truthy, else
\* its statusCode where that is truthy, and nothing otherwise
C10_LastContributionIfTruthy ==
  Returned =>
    ret.scanned =
      LastContribution(
        LAMBDA a : \/ IsNumberArg(a)
                   \/ /\ InstanceOfError(a)
                      /\ \/ Truthy(Get(a, "status"))
                         \/ Truthy(Get(a, "statusCode")),
        LAMBDA a : IF IsNumberArg(a) THEN a.v
                   ELSE IF Truthy(Get(a, "status")) THEN Get(a, "status")
                   ELSE Get(a, "statusCode"))

\* a later number has overridden an adopted error's status
C10_Witness ==
  /\ Returned
  /\ Len(args) = 2
  /\ InstanceOfError(args[1])
  /\ Get(args[1], "status") = Num(404)
  /\ args[2] = Prim(Num(500))
  /\ ret.scanned = Num(500)

====
